---- MODULE Spec2Model ----
(***************************************************************************)
(* A model of lib/beseech.js: the session state (started, paused, the      *)
(* bound streams), the cooked and the hidden line reader, the prompt /     *)
(* validator loop (getInput), the sequential batch driver (get) and the    *)
(* result assembler (addProperties).                                       *)
(*                                                                         *)
(* Strings are sequences of one-character strings.  Every operation of     *)
(* the module is an operator from a state record to a state record; an     *)
(* action applies one operation (an API call, or one event of the input    *)
(* stream with every listener it runs) to the current state.               *)
(***************************************************************************)
EXTENDS Integers, Sequences, FiniteSets, TLC

VARIABLES
  started,        \* beseech.js:30
  paused,         \* beseech.js:31
  flowing,        \* the input stream delivers chunks (stdin.pause / stdin.resume)
  rawMode,        \* stdio.setRawMode
  proc,           \* "running", "exit1" after process.exit(1), "uncaught" after an uncaught exception, "killed" by a signal
  sigint,         \* number of registered SIGINT handlers
  properties,     \* beseech.properties: name -> field descriptor (beseech.js:38)
  dataL,          \* 'data' listeners of stdin, in registration order
  errorL,         \* 'error' listeners of stdin, in registration order
  val,            \* the implicit global assigned at beseech.js:260
  output,         \* what reached the terminal: stdout writes and logger lines, in order
  batches,        \* the closures of the get calls: vars, result, the series position
  calls,          \* the API calls made so far and what their callbacks received
  nextId,         \* next listener identity
  input,          \* the chunks the stream has emitted so far
  errors,         \* number of 'error' events the stream has emitted
  lost            \* chunks emitted while no 'data' listener was attached

vars == <<started, paused, flowing, rawMode, proc, sigint, properties, dataL,
          errorL, val, output, batches, calls, nextId, input, errors, lost>>

-----------------------------------------------------------------------------
(* Bounds *)

MaxCalls  == 1    \* calls of getInput, get and addProperties
MaxReads  == 2    \* direct calls of readLine and readLineHidden
MaxChunks == 2    \* chunks the input stream emits
MaxErrors == 1    \* 'error' events the input stream emits

-----------------------------------------------------------------------------
(* Characters and strings *)

LF  == "\n"
CR  == "\r"
SP  == " "
EOT == "^D"
ETX == "^C"
NUL == "^@"

Max(a, b) == IF a > b THEN a ELSE b
Min(a, b) == IF a < b THEN a ELSE b

\* String.prototype.indexOf for a one-character needle: 0-based, -1 if absent
indexOf(s, c) ==
  IF \E i \in 1..Len(s) : s[i] = c
  THEN (CHOOSE i \in 1..Len(s) : s[i] = c /\ \A j \in 1..(i-1) : s[j] # c) - 1
  ELSE -1

\* String.prototype.substr(start) : a negative start counts from the end
substrFrom(s, start) ==
  LET b == IF start < 0 THEN Max(Len(s) + start, 0) ELSE Min(start, Len(s))
  IN  SubSeq(s, b + 1, Len(s))

\* String.prototype.substr(start, length) : a length <= 0 gives ''
substr(s, start, length) ==
  LET b == IF start < 0 THEN Max(Len(s) + start, 0) ELSE Min(start, Len(s))
      e == Min(b + Max(length, 0), Len(s))
  IN  SubSeq(s, b + 1, e)

\* value.replace(/\r/g, '')
stripCR(s) == SelectSeq(s, LAMBDA c : c # CR)

\* value.replace(/^\n+/, '')
stripLeadingLF(s) ==
  IF \A i \in 1..Len(s) : s[i] = LF
  THEN <<>>
  ELSE SubSeq(s, CHOOSE i \in 1..Len(s) : s[i] # LF /\ \A j \in 1..(i-1) : s[j] = LF, Len(s))

IsSpace(c) == c \in {SP, LF, CR}

\* String.prototype.trim
trim(s) ==
  IF \A i \in 1..Len(s) : IsSpace(s[i])
  THEN <<>>
  ELSE LET a == CHOOSE i \in 1..Len(s) : ~IsSpace(s[i]) /\ \A j \in 1..(i-1) : IsSpace(s[j])
           b == CHOOSE i \in 1..Len(s) : ~IsSpace(s[i]) /\ \A j \in (i+1)..Len(s) : IsSpace(s[j])
       IN  SubSeq(s, a, b)

-----------------------------------------------------------------------------
(* Terminal text *)

\* colors: String.prototype.grey / .yellow wrap the text in escape codes
grey(s)   == <<"ESC[90m">> \o s \o <<"ESC[39m">>
yellow(s) == <<"ESC[33m">> \o s \o <<"ESC[39m">>

\* one entry of the terminal transcript; `by` is the API call it was written for
Written(sink, kind, text, by) == [sink |-> sink, kind |-> kind, text |-> text, by |-> by]

-----------------------------------------------------------------------------
(* Field descriptors *)

\* a bare string given to get / getInput: only the string itself
Bare(name) ==
  [str |-> TRUE, name |-> name, message |-> <<>>, default |-> <<>>, hidden |-> FALSE,
   validator |-> "none", warning |-> <<>>, help |-> <<>>]

Field(name, default, hidden, validator, warning) ==
  [str |-> FALSE, name |-> name, message |-> <<>>, default |-> default, hidden |-> hidden,
   validator |-> validator, warning |-> warning, help |-> <<>>]

\* prop.validator.test(line) for the pattern /^a+$/ , prop.validator(line) for
\* the predicate function (line) { return line.length <= 1 }
Valid(validator, line) ==
  CASE validator = "pattern"   -> Len(line) > 0 /\ \A i \in 1..Len(line) : line[i] = "a"
    [] validator = "predicate" -> Len(line) <= 1
    [] OTHER                   -> TRUE

-----------------------------------------------------------------------------
(* The state the operations transform *)

St ==
  [started |-> started, paused |-> paused, flowing |-> flowing, rawMode |-> rawMode,
   proc |-> proc, sigint |-> sigint, properties |-> properties, dataL |-> dataL,
   errorL |-> errorL, val |-> val, output |-> output, batches |-> batches,
   calls |-> calls, nextId |-> nextId, input |-> input, errors |-> errors, lost |-> lost]

Becomes(s) ==
  /\ started' = s.started       /\ paused' = s.paused     /\ flowing' = s.flowing
  /\ rawMode' = s.rawMode       /\ proc' = s.proc /\ sigint' = s.sigint
  /\ properties' = s.properties /\ dataL' = s.dataL       /\ errorL' = s.errorL
  /\ val' = s.val               /\ output' = s.output     /\ batches' = s.batches
  /\ calls' = s.calls           /\ nextId' = s.nextId     /\ input' = s.input
  /\ errors' = s.errors         /\ lost' = s.lost

write(s, sink, kind, text, by) ==
  [s EXCEPT !.output = Append(@, Written(sink, kind, text, by))]

\* process.exit(1)
exit(s) == [s EXCEPT !.proc = "exit1"]

-----------------------------------------------------------------------------
(* Session lifecycle: start, pause, resume *)

\* beseech.start: process.openStdin() hands out the standard input resumed,
\* which is what `paused = false` (beseech.js:31) takes for granted
start(s) ==
  IF s.started
  THEN s
  ELSE [s EXCEPT !.flowing = TRUE, !.sigint = @ + 1, !.started = TRUE]

\* what beseech.start hands back to its caller: `return;` when already
\* started (beseech.js:53-55), `return beseech` otherwise (beseech.js:66)
startReturn(s) == IF s.started THEN "undefined" ELSE "beseech"

pause(s) ==
  IF ~s.started \/ s.paused
  THEN s
  ELSE [s EXCEPT !.flowing = FALSE, !.paused = TRUE]

resume(s) ==
  IF ~s.started \/ ~s.paused
  THEN s
  ELSE [s EXCEPT !.flowing = TRUE, !.paused = FALSE]

-----------------------------------------------------------------------------
(* Callbacks *)

\* The callback a caller of the API passed in: it records what it received.
\* a1 is the first argument (null, error, object), a2 the second.
UserCb(c) ==
  [t |-> "user", call |-> c, prop |-> Bare(<<>>), k |-> "user", batch |-> 0]

\* The callback getInput hands to its reader (beseech.js:161); k says whether
\* getInput's own callback is the caller's or the one of get (beseech.js:116).
InputCb(c, prop, k, b) ==
  [t |-> "input", call |-> c, prop |-> prop, k |-> k, batch |-> b]

NoTree == [p \in {<<>>} |-> [t |-> "object", s |-> <<>>]]

invokeUser(s, c, a1, a2, line, rec, obj) ==
  [s EXCEPT !.calls[c] = [@ EXCEPT !.n = @ + 1, !.a1 = a1, !.a2 = a2,
                                   !.line = line, !.rec = rec, !.obj = obj,
                                   !.seen = Len(s.output)]]

-----------------------------------------------------------------------------
(* Listeners of the input stream *)

Listener(id, kind, cb) ==
  [id |-> id, kind |-> kind, value |-> <<>>, buffer |-> <<>>, cb |-> cb]

\* stdin.removeListener(event, fn): the listener with that identity goes
removeListener(ls, id) == SelectSeq(ls, LAMBDA l : l.id # id)

IndexOfId(ls, id) == CHOOSE i \in 1..Len(ls) : ls[i].id = id

\* beseech.readLine up to the registration of its listeners
readLine(s, cb) ==
  LET r == resume(s)
  IN  [r EXCEPT !.errorL = Append(@, Listener(r.nextId, "cooked", cb)),
                !.dataL  = Append(@, Listener(r.nextId, "cooked", cb)),
                !.nextId = @ + 1]

\* beseech.readLineHidden up to the registration of its listeners
readLineHidden(s, cb) ==
  LET r == resume([s EXCEPT !.rawMode = TRUE])
  IN  [r EXCEPT !.errorL = Append(@, Listener(r.nextId, "hidden", cb)),
                !.dataL  = Append(@, Listener(r.nextId, "hidden", cb)),
                !.nextId = @ + 1]

-----------------------------------------------------------------------------
(* Objects: the target of addProperties *)

\* An object is a function from the paths of its (nested) own properties to
\* their values; the empty path is the object itself.  A value is an object,
\* a string or null.
ObjectV    == [t |-> "object", s |-> <<>>]
StringV(x) == [t |-> "string", s |-> x]
NullV      == [t |-> "null", s |-> <<>>]

\* typeof obj[key] === 'undefined'
Undefined(tree, path) == path \notin DOMAIN tree

\* !last[key]
Falsy(tree, path) ==
  \/ path \notin DOMAIN tree
  \/ tree[path].t = "null"
  \/ tree[path].t = "string" /\ tree[path].s = <<>>

IsPrefix(p, q) == Len(p) <= Len(q) /\ SubSeq(q, 1, Len(p)) = p

\* last[key] = v , where last is the object at path `at`
assign(tree, path, v) ==
  LET keep == {q \in DOMAIN tree : ~IsPrefix(path, q)}
  IN  [q \in keep \cup {path} |-> IF q = path THEN v ELSE tree[q]]

\* String.prototype.split('.')
RECURSIVE split(_)
split(name) ==
  LET i == indexOf(name, ".")
  IN  IF i = -1
      THEN <<name>>
      ELSE <<SubSeq(name, 1, i)>> \o split(SubSeq(name, i + 2, Len(name)))

\* putNested (beseech.js:217): `last` is a reference to the object at path
\* `at`, or a primitive string, or undefined.  Assigning a property of a
\* primitive is ignored; reading a property of undefined throws.
RECURSIVE putNestedFrom(_, _, _, _, _)
putNestedFrom(tree, last, at, path, value) ==
  IF Len(path) > 1
  THEN LET key == Head(path)
           to  == Append(at, key)
       IN  CASE last = "ref" /\ Falsy(tree, to) ->
                  putNestedFrom(assign(tree, to, ObjectV), "ref", to, Tail(path), value)
             [] last = "ref" /\ ~Falsy(tree, to) ->
                  putNestedFrom(tree, IF tree[to].t = "object" THEN "ref" ELSE "primitive",
                                to, Tail(path), value)
             [] last = "primitive" ->
                  putNestedFrom(tree, "undefined", to, Tail(path), value)
             [] OTHER ->
                  [tree |-> tree, threw |-> TRUE]
  ELSE CASE last = "ref"       -> [tree |-> assign(tree, Append(at, Head(path)), StringV(value)),
                                   threw |-> FALSE]
         [] last = "primitive" -> [tree |-> tree, threw |-> FALSE]
         [] OTHER              -> [tree |-> tree, threw |-> TRUE]

\* mutant: the value is assigned at the first key, without descending
putNested_flat(obj, path, value) ==
  [tree |-> assign(obj, <<Head(path)>>, StringV(value)), threw |-> FALSE]

putNested(obj, path, value) == putNestedFrom(obj, "ref", <<>>, path, value)

\* Object.keys(results).forEach(... putNested(obj, key.split('.'), results[key]))
RECURSIVE putAll(_, _)
putAll(obj, results) ==
  IF results = <<>>
  THEN [tree |-> obj, threw |-> FALSE]
  ELSE LET r == putNested(obj, split(Head(results).name), Head(results).line)
       IN  IF r.threw THEN r ELSE putAll(r.tree, Tail(results))

\* result[name] = line on a record that keeps its keys in insertion order
setResult(result, name, line) ==
  IF \E i \in 1..Len(result) : result[i].name = name
  THEN [i \in 1..Len(result) |->
          IF result[i].name = name THEN [name |-> name, line |-> line] ELSE result[i]]
  ELSE Append(result, [name |-> name, line |-> line])

-----------------------------------------------------------------------------
(* The prompt / validator loop, the batch driver, the result assembler *)

\* prop.message || prop.name || prop
displayName(prop) == IF prop.message # <<>> THEN prop.message ELSE prop.name

\* the prompt text of beseech.js:140-151
promptMsg(prop) ==
  <<"p", "r", "o", "m", "p", "t">> \o (<<":", SP>> \o grey(displayName(prop)))
    \o (IF prop.default # <<>> THEN <<SP, "(">> \o prop.default \o <<")">> ELSE <<>>)
    \o grey(<<":", SP>>)

RECURSIVE logHelp(_, _, _)
logHelp(s, help, c) ==
  IF help = <<>> THEN s ELSE logHelp(write(s, "logger", "help", Head(help), c), Tail(help), c)

\* beseech.getInput up to the start of its reader; cb is the callback the
\* reader gets (beseech.js:161)
getInput(s, prop, k, c, b) ==
  LET h == logHelp(s, prop.help, c)
      w == write(h, "stdout", "prompt", promptMsg(prop), c)
  IN  IF prop.hidden
      THEN readLineHidden(w, InputCb(c, prop, k, b))
      ELSE readLine(w, InputCb(c, prop, k, b))

\* the callback addProperties hands to get (beseech.js:209)
addPropertiesCallback(s, b, err) ==
  LET B == s.batches[b]
  IN  IF err
      THEN invokeUser(s, B.call, "error", "undefined", <<>>, <<>>, NoTree)
      ELSE LET r == putAll(B.obj, B.result)
           IN  IF r.threw
               THEN [s EXCEPT !.proc = "uncaught", !.batches[b].obj = r.tree]
               ELSE invokeUser([s EXCEPT !.batches[b].obj = r.tree],
                               B.call, "null", "object", <<>>, <<>>, r.tree)

\* the final callback of async.forEachSeries (beseech.js:127)
seriesDone(s, b, err) ==
  LET B == s.batches[b]
  IN  CASE ~B.live     -> s
        [] B.k = "add" -> addPropertiesCallback(s, b, err)
        [] err         -> invokeUser(s, B.call, "error", "undefined", <<>>, <<>>, NoTree)
        [] OTHER       -> invokeUser(s, B.call, "null", "record", <<>>, B.result, NoTree)

\* one step of async.forEachSeries: the iterator on arr[completed]
iterate(s, b) ==
  LET B == s.batches[b]
  IN  getInput(s, B.vars[B.completed + 1], "field", B.call, b)

\* the function async.forEachSeries passes to the iterator as `next`
next(s, b, err) ==
  IF err
  THEN [seriesDone(s, b, TRUE) EXCEPT !.batches[b].live = FALSE]
  ELSE LET t == [s EXCEPT !.batches[b].completed = @ + 1]
       IN  IF t.batches[b].completed = Len(t.batches[b].vars)
           THEN seriesDone(t, b, FALSE)
           ELSE iterate(t, b)

\* target.name || target
resultName(prop) ==
  IF prop.str \/ prop.name # <<>> THEN prop.name ELSE <<"[object Object]">>

\* the callback get hands to getInput (beseech.js:116)
fieldCallback(s, b, prop, err, line) ==
  IF err
  THEN next(s, b, TRUE)
  ELSE next([s EXCEPT !.batches[b].result = setResult(@, resultName(prop), line)], b, FALSE)

\* getInput's callback: the caller's own, or the one of get
inputDone(s, cb, err, line) ==
  IF cb.k = "field"
  THEN fieldCallback(s, cb.batch, cb.prop, err, line)
  ELSE IF err
       THEN invokeUser(s, cb.call, "error", "undefined", <<>>, <<>>, NoTree)
       ELSE invokeUser(s, cb.call, "null", "line", line, <<>>, NoTree)

\* mutant: the default is never substituted
withDefault_ignored(prop, line) == line

\* line = prop.default || line , for an empty line (beseech.js:166-168)
withDefault(prop, line) ==
  IF line = <<>> /\ prop.default # <<>> THEN prop.default ELSE line

\* mutant: a line that fails the validator is reported as an error
readCallback_failing(s, cb, err, line) ==
  IF err \/ (cb.prop.validator # "none" /\ ~Valid(cb.prop.validator, withDefault(cb.prop, line)))
  THEN inputDone(s, cb, TRUE, <<>>)
  ELSE inputDone(write(s, "logger", "input", yellow(withDefault(cb.prop, line)), cb.call),
                 cb, FALSE, withDefault(cb.prop, line))

\* mutant: the validator is tested on the submitted line, and the default
\* is substituted afterwards
readCallback_rawValidated(s, cb, err, line) ==
  IF err
  THEN inputDone(s, cb, TRUE, <<>>)
  ELSE LET prop == cb.prop
           l    == withDefault(prop, line)
       IN  IF prop.validator # "none" /\ ~Valid(prop.validator, line)
           THEN LET e == write(s, "logger", "error",
                               <<"Invalid input for ">> \o grey(displayName(prop)), cb.call)
                    w == IF prop.warning # <<>>
                         THEN write(e, "logger", "error", prop.warning, cb.call)
                         ELSE e
                IN  getInput(w, prop, cb.k, cb.call, cb.batch)
           ELSE inputDone(write(s, "logger", "input", yellow(l), cb.call), cb, FALSE, l)

\* the callback getInput hands to its reader (beseech.js:161-187)
readCallback(s, cb, err, line) ==
  IF err
  THEN inputDone(s, cb, TRUE, <<>>)
  ELSE LET prop == cb.prop
           l    == withDefault(prop, line)
       IN  IF prop.validator # "none" /\ ~Valid(prop.validator, l)
           THEN LET e == write(s, "logger", "error",
                               <<"Invalid input for ">> \o grey(displayName(prop)), cb.call)
                    w == IF prop.warning # <<>>
                         THEN write(e, "logger", "error", prop.warning, cb.call)
                         ELSE e
                IN  getInput(w, prop, cb.k, cb.call, cb.batch)
           ELSE inputDone(write(s, "logger", "input", yellow(l), cb.call), cb, FALSE, l)

\* calling a reader's callback
invoke(s, cb, err, line) ==
  IF cb.t = "user"
  THEN IF err
       THEN invokeUser(s, cb.call, "error", "undefined", <<>>, <<>>, NoTree)
       ELSE invokeUser(s, cb.call, "null", "line", line, <<>>, NoTree)
  ELSE readCallback(s, cb, err, line)

-----------------------------------------------------------------------------
(* The listeners of the two readers *)

\* what the 'data' listener of readLine makes of the pending value
\* (beseech.js:253-260, 264)
cooked(pending) ==
  LET v == stripCR(pending)
      w == IF v # <<LF>> THEN stripLeadingLF(v) ELSE v
      i == indexOf(w, LF)
  IN  [done   |-> indexOf(v, LF) # -1,
       value  |-> v,
       buffer |-> substrFrom(w, i),
       val    |-> substr(w, 0, i),
       line   |-> trim(w)]

\* the 'data' listener of readLine (beseech.js:250-267)
readLineData(s, id, chunk) ==
  LET i == IndexOfId(s.dataL, id)
      l == s.dataL[i]
      r == cooked(l.value \o l.buffer \o chunk)
  IN  IF r.done
      THEN LET p == pause([s EXCEPT !.val = r.val])
               q == [p EXCEPT !.dataL = removeListener(@, id),
                              !.errorL = removeListener(@, id)]
           IN  invoke(q, l.cb, FALSE, r.line)
      ELSE [s EXCEPT !.dataL[i].value = r.value, !.dataL[i].buffer = <<>>]

\* the 'data' listener of readLineHidden (beseech.js:280-301)
\* mutant: the default branch echoes what was typed
readLineHiddenData_echo(s, id, c) ==
  LET i == IndexOfId(s.dataL, id)
      l == s.dataL[i]
  IN  CASE c \in {<<LF>>, <<CR>>, <<CR, LF>>, <<EOT>>} ->
             LET m == [s EXCEPT !.rawMode = FALSE,
                                !.dataL = removeListener(@, id),
                                !.errorL = removeListener(@, id)]
                 w == write(m, "stdout", "newline", <<LF>>, l.cb.call)
             IN  invoke(pause(w), l.cb, FALSE, trim(l.value))
        [] c \in {<<ETX>>, <<NUL>>} ->
             exit(write(s, "stdout", "newline", <<LF>>, l.cb.call))
        [] OTHER ->
             write([s EXCEPT !.dataL[i].value = l.value \o l.buffer \o c,
                             !.dataL[i].buffer = <<>>],
                   "stdout", "echo", c, l.cb.call)

\* mutant: the interrupt character cancels the read and reports an error
\* to its callback
readLineHiddenData_cancel(s, id, c) ==
  LET i == IndexOfId(s.dataL, id)
      l == s.dataL[i]
  IN  CASE c \in {<<LF>>, <<CR>>, <<CR, LF>>, <<EOT>>} ->
             LET m == [s EXCEPT !.rawMode = FALSE,
                                !.dataL = removeListener(@, id),
                                !.errorL = removeListener(@, id)]
                 w == write(m, "stdout", "newline", <<LF>>, l.cb.call)
             IN  invoke(pause(w), l.cb, FALSE, trim(l.value))
        [] c \in {<<ETX>>, <<NUL>>} ->
             LET m == [s EXCEPT !.rawMode = FALSE,
                                !.dataL = removeListener(@, id),
                                !.errorL = removeListener(@, id)]
                 w == write(m, "stdout", "newline", <<LF>>, l.cb.call)
             IN  invoke(pause(w), l.cb, TRUE, <<>>)
        [] OTHER ->
             [s EXCEPT !.dataL[i].value = l.value \o l.buffer \o c, !.dataL[i].buffer = <<>>]

readLineHiddenData(s, id, c) ==
  LET i == IndexOfId(s.dataL, id)
      l == s.dataL[i]
  IN  CASE c \in {<<LF>>, <<CR>>, <<CR, LF>>, <<EOT>>} ->
             LET m == [s EXCEPT !.rawMode = FALSE,
                                !.dataL = removeListener(@, id),
                                !.errorL = removeListener(@, id)]
                 w == write(m, "stdout", "newline", <<LF>>, l.cb.call)
             IN  invoke(pause(w), l.cb, FALSE, trim(l.value))
        [] c \in {<<ETX>>, <<NUL>>} ->
             exit(write(s, "stdout", "newline", <<LF>>, l.cb.call))
        [] OTHER ->
             [s EXCEPT !.dataL[i].value = l.value \o l.buffer \o c, !.dataL[i].buffer = <<>>]

\* stdin.emit('data', chunk): every listener registered when the event is
\* emitted runs, in registration order; nothing runs once the process is gone
RECURSIVE emitData(_, _, _)
emitData(s, ls, chunk) ==
  IF ls = <<>> \/ s.proc # "running"
  THEN s
  ELSE emitData(IF Head(ls).kind = "cooked"
                THEN readLineData(s, Head(ls).id, chunk)
                ELSE readLineHiddenData(s, Head(ls).id, chunk),
                Tail(ls), chunk)

\* stdin.emit('error', err): without a listener the error is thrown
RECURSIVE emitError(_, _)
emitError(s, ls) ==
  IF ls = <<>> \/ s.proc # "running"
  THEN s
  ELSE emitError(invoke(s, Head(ls).cb, TRUE, <<>>), Tail(ls))

-----------------------------------------------------------------------------
(* get and addProperties *)

toLowerCase(str) ==
  [i \in 1..Len(str) |-> CASE str[i] = "H" -> "h" [] str[i] = "D" -> "d" [] OTHER -> str[i]]

\* the map of beseech.js:107-113
normalize(s, v) ==
  IF v.str
  THEN LET n == toLowerCase(v.name)
       IN  IF n \in DOMAIN s.properties THEN s.properties[n] ELSE Bare(n)
  ELSE v

Batch(c, k, vs, obj) ==
  [call |-> c, k |-> k, vars |-> vs, completed |-> 0, result |-> <<>>, live |-> TRUE,
   obj |-> obj]

\* mutant: every field is started at once (forEach for forEachSeries)
RECURSIVE startAll(_, _, _)
startAll(s, b, i) ==
  IF i > Len(s.batches[b].vars)
  THEN s
  ELSE startAll(getInput(s, s.batches[b].vars[i], "field", s.batches[b].call, b), b, i + 1)

get_parallel(s, msg, k, c, obj) ==
  startAll([s EXCEPT !.batches =
              Append(@, Batch(c, k, [i \in 1..Len(msg) |-> normalize(s, msg[i])], obj))],
           Len(s.batches) + 1, 1)

\* beseech.get for the call c; k says whose callback the series ends with
get(s, msg, k, c, obj) ==
  LET vs == [i \in 1..Len(msg) |-> normalize(s, msg[i])]
      b  == Len(s.batches) + 1
      t  == [s EXCEPT !.batches = Append(@, Batch(c, k, vs, obj))]
  IN  IF Len(vs) = 0 THEN seriesDone(t, b, FALSE) ELSE iterate(t, b)

\* beseech.addProperties (beseech.js:200-238)
addProperties(s, obj, props, c) ==
  LET filtered == SelectSeq(props, LAMBDA prop : Undefined(obj, <<prop>>))
  IN  IF Len(filtered) = 0
      THEN invokeUser(s, c, "object", "undefined", <<>>, <<>>, obj)
      ELSE get(s, [i \in 1..Len(filtered) |-> Bare(filtered[i])], "add", c, obj)

-----------------------------------------------------------------------------
(* Inputs *)

hName  == <<"h">>
pName  == <<"p">>
dName  == <<"d">>
dhName == <<"d", ".", "h">>

\* the chunks the input stream may deliver
Chunks ==
  { <<"a", LF>>, <<LF>>, <<"b">>, <<"a", LF, "b", LF>>, <<SP, "b", CR, LF>>,
    <<CR>>, <<ETX>> }

\* the key presses a terminal in raw mode may deliver besides
Keys == { <<EOT>>, <<NUL>>, <<CR, LF>> }

\* the fields getInput is called with
Props ==
  { Bare(hName),
    Field(pName, <<"a">>, FALSE, "pattern", <<"w">>),
    Field(hName, <<"b">>, FALSE, "none", <<>>),
    Field(dName, <<"b", "b">>, TRUE, "predicate", <<>>) }

\* the field lists get is called with
Msgs ==
  { <<>>,
    <<Bare(<<"H">>), Field(pName, <<"a">>, FALSE, "pattern", <<"w">>)>>,
    <<Field(dName, <<>>, TRUE, "none", <<>>), Bare(hName)>> }

\* the targets and property lists addProperties is called with
Targets ==
  { NoTree,
    [q \in {<<>>, <<dName>>, <<dName, hName>>} |->
       IF q = <<dName, hName>> THEN StringV(<<"x">>) ELSE ObjectV],
    [q \in {<<>>, <<dName>>, <<hName>>} |->
       IF q = <<dName>> THEN NullV ELSE IF q = <<hName>> THEN StringV(<<"x">>) ELSE ObjectV] }

PropLists == { <<dhName>>, <<hName>>, <<dName, dhName>> }

-----------------------------------------------------------------------------
(* The state machine *)

Call(op, prop, msg, target) ==
  [op |-> op, n |-> 0, a1 |-> "none", a2 |-> "none", line |-> <<>>, rec |-> <<>>,
   obj |-> NoTree, seen |-> 0, prop |-> prop, msg |-> msg, target |-> target]

called(s, op, prop, msg, target) ==
  [s EXCEPT !.calls = Append(@, Call(op, prop, msg, target))]

CanCall == proc = "running" /\ started /\ Len(calls) < MaxCalls

CanRead == proc = "running" /\ started /\ Len(calls) < MaxReads

Init ==
  /\ started = FALSE /\ paused = FALSE /\ flowing = FALSE /\ rawMode = FALSE
  /\ proc = "running" /\ sigint = 0 /\ properties = <<>>
  /\ dataL = <<>> /\ errorL = <<>> /\ val = <<>> /\ output = <<>>
  /\ batches = <<>> /\ calls = <<>> /\ nextId = 1
  /\ input = <<>> /\ errors = 0 /\ lost = 0

Start ==
  /\ proc = "running"
  /\ Becomes(start(St))

CallReadLine ==
  /\ CanRead
  /\ Becomes(readLine(called(St, "readLine", Bare(<<>>), <<>>, NoTree),
                      UserCb(Len(calls) + 1)))

CallReadLineHidden ==
  /\ CanRead
  /\ Becomes(readLineHidden(called(St, "readLineHidden", Bare(<<>>), <<>>, NoTree),
                            UserCb(Len(calls) + 1)))

CallGetInput ==
  /\ CanCall
  /\ \E prop \in Props :
       Becomes(getInput(called(St, "getInput", prop, <<>>, NoTree),
                        prop, "user", Len(calls) + 1, 0))

CallGet ==
  /\ CanCall
  /\ \E msg \in Msgs :
       Becomes(get(called(St, "get", Bare(<<>>), msg, NoTree),
                   msg, "user", Len(calls) + 1, NoTree))

CallAddProperties ==
  /\ CanCall
  /\ \E obj \in Targets, props \in PropLists :
       Becomes(addProperties(called(St, "addProperties", Bare(<<>>), props, obj),
                             obj, props, Len(calls) + 1))

\* the input stream emits 'data'
Data ==
  /\ proc = "running" /\ started /\ flowing /\ Len(input) < MaxChunks
  /\ \E chunk \in Chunks :
       Becomes(emitData([St EXCEPT !.input = Append(@, chunk),
                                   !.lost = IF dataL = <<>> THEN @ + 1 ELSE @],
                        dataL, chunk))

\* the input stream emits 'data' for a key pressed while the terminal is in
\* raw mode
Key ==
  /\ proc = "running" /\ started /\ flowing /\ rawMode /\ Len(input) < MaxChunks
  /\ \E c \in Keys :
       Becomes(emitData([St EXCEPT !.input = Append(@, c),
                                   !.lost = IF dataL = <<>> THEN @ + 1 ELSE @],
                        dataL, c))

\* the input stream emits 'error'
StreamError ==
  /\ proc = "running" /\ started /\ errors < MaxErrors
  /\ Becomes(IF errorL = <<>>
             THEN [St EXCEPT !.errors = @ + 1, !.proc = "uncaught"]
             ELSE emitError([St EXCEPT !.errors = @ + 1], errorL))

\* the process receives SIGINT
Sigint ==
  /\ proc = "running"
  /\ Becomes(IF sigint > 0
             THEN exit(write(St, "stdout", "newline", <<LF>>, 0))
             ELSE [St EXCEPT !.proc = "killed"])

\* the prompt loop and the batch driver
Next ==
  \/ Start
  \/ CallGetInput
  \/ CallGet
  \/ Data
  \/ StreamError

Spec == Init /\ [][Next]_vars

\* the two readers called directly
NextRead ==
  \/ Start
  \/ CallReadLine
  \/ CallReadLineHidden
  \/ Data
  \/ Key
  \/ StreamError

SpecRead == Init /\ [][NextRead]_vars

\* the result assembler
NextAdd ==
  \/ Start
  \/ CallAddProperties
  \/ Data
  \/ StreamError

SpecAdd == Init /\ [][NextAdd]_vars

\* the readers under the interrupt signal
NextSignal ==
  \/ Start
  \/ CallReadLine
  \/ CallReadLineHidden
  \/ Data
  \/ Key
  \/ StreamError
  \/ Sigint

SpecSignal == Init /\ [][NextSignal]_vars

-----------------------------------------------------------------------------
(* Properties *)

Calls == 1..Len(calls)

\* the call c has had its callback invoked with a value
Resolved(c) == calls[c].n >= 1 /\ calls[c].a1 = "null"

\* the terminal transcript of one call, restricted to some kinds of entry
Transcript(c, kinds) == SelectSeq(output, LAMBDA e : e.by = c /\ e.kind \in kinds)

TwoLines == <<"a", LF, "b", LF>>

\* C1: when the one chunk delivered so far is "a\nb\n" and the first
\* readLine call has resolved, it resolved with "a"; a second readLine call
\* has then resolved with "b" without a further chunk.
C1_CarryOver ==
  (/\ input = <<TwoLines>> /\ lost = 0
   /\ Len(calls) >= 1 /\ calls[1].op = "readLine" /\ Resolved(1))
  => /\ calls[1].line = <<"a">>
     /\ (Len(calls) = 2 /\ calls[2].op = "readLine")
          => (Resolved(2) /\ calls[2].line = <<"b">>)

\* C2: a cooked reader that is still listening holds no terminator in its
\* pending value, and the line a cooked read resolved with (directly, or as
\* the accepted line of a field with no default and no validator) holds no
\* terminator, hence no text that follows one.
C2_LineBeforeTerminator ==
  /\ \A i \in 1..Len(dataL) :
       dataL[i].kind = "cooked" => indexOf(dataL[i].value, LF) = -1
  /\ \A c \in Calls :
       (/\ Resolved(c)
        /\ \/ calls[c].op = "readLine"
           \/ /\ calls[c].op = "getInput" /\ ~calls[c].prop.hidden
              /\ calls[c].prop.default = <<>> /\ calls[c].prop.validator = "none")
       => indexOf(calls[c].line, LF) = -1

\* the number of entries of a given kind among the first n of a transcript
RECURSIVE CountKind(_, _, _)
CountKind(e, n, kind) ==
  IF n = 0 THEN 0
  ELSE CountKind(e, n - 1, kind) + (IF e[n].kind = kind THEN 1 ELSE 0)

\* C3: in the transcript of a get call every prompt is the prompt of the
\* field that follows the fields accepted so far, so the prompt of field i+1
\* comes only after the read of field i has completed; on success the
\* callback receives the record of every field name with its accepted line.
C3_SeriesInOrder ==
  \A b \in 1..Len(batches) :
    batches[b].k = "user" =>
      LET c  == batches[b].call
          vs == batches[b].vars
          e  == Transcript(c, {"prompt", "input"})
          a  == Transcript(c, {"input"})
      IN  /\ \A n \in 1..Len(e) :
               e[n].kind = "prompt" =>
                 LET j == CountKind(e, n - 1, "input") + 1
                 IN  j <= Len(vs) /\ e[n].text = promptMsg(vs[j])
          /\ Resolved(c) =>
               /\ calls[c].a2 = "record"
               /\ Len(calls[c].rec) = Len(vs) /\ Len(a) = Len(vs)
               /\ \A j \in 1..Len(vs) :
                    /\ calls[c].rec[j].name = resultName(vs[j])
                    /\ a[j].text = yellow(calls[c].rec[j].line)

\* C3 witness: a get over two fields has resolved with both answers
C3_Witness ==
  \E c \in Calls :
    /\ calls[c].op = "get" /\ Resolved(c) /\ Len(calls[c].rec) = 2
    /\ Len(Transcript(c, {"prompt"})) >= 2

InvalidText(prop) == <<"Invalid input for ">> \o grey(displayName(prop))

\* the rejections logged for a getInput call
Rejections(c) ==
  SelectSeq(output, LAMBDA e : e.by = c /\ e.kind = "error"
                               /\ e.text = InvalidText(calls[c].prop))

\* C4: for a getInput call every rejected line is followed by the same
\* prompt again (one prompt more than rejections, all of them the field's
\* prompt); its callback has received either a stream error or a line that
\* passes the validator; and while neither has happened a reader for the
\* field is listening.
C4_RepromptOnInvalid ==
  \A c \in Calls :
    calls[c].op = "getInput" =>
      LET prop == calls[c].prop
          p    == Transcript(c, {"prompt"})
      IN  /\ Len(p) = Len(Rejections(c)) + 1
          /\ \A n \in 1..Len(p) : p[n].text = promptMsg(prop)
          /\ calls[c].n >= 1 =>
               \/ calls[c].a1 = "error" /\ errors >= 1
               \/ calls[c].a1 = "null" /\ Valid(prop.validator, calls[c].line)
          /\ (calls[c].n = 0 /\ proc = "running") =>
               \E i \in 1..Len(dataL) :
                 /\ dataL[i].cb.call = c /\ dataL[i].cb.prop = prop
                 /\ dataL[i].kind = (IF prop.hidden THEN "hidden" ELSE "cooked")

\* C4 witness: a field with a validator was rejected once and then accepted
C4_Witness ==
  \E c \in Calls :
    /\ calls[c].op = "getInput" /\ calls[c].prop.validator # "none"
    /\ Len(Rejections(c)) >= 1 /\ Resolved(c)

\* every chunk emitted so far is a bare terminator: every submitted line is empty
OnlyEmptyLines == input # <<>> /\ \A i \in 1..Len(input) : input[i] \in {<<LF>>, <<CR>>}

\* C10: a getInput call of a field with a default never resolves with the
\* empty string, and when every submitted line was empty it resolves with
\* the default, or with the empty string when the field has no default.
C10_DefaultForEmptyLine ==
  \A c \in Calls :
    (calls[c].op = "getInput" /\ Resolved(c)) =>
      /\ calls[c].prop.default # <<>> => calls[c].line # <<>>
      /\ OnlyEmptyLines =>
           calls[c].line = (IF calls[c].prop.default # <<>>
                            THEN calls[c].prop.default ELSE <<>>)

\* C10 witness: an empty line was submitted for a field with a default
C10_Witness ==
  \E c \in Calls :
    /\ calls[c].op = "getInput" /\ Resolved(c) /\ OnlyEmptyLines
    /\ calls[c].prop.default # <<>> /\ calls[c].line = calls[c].prop.default

PromptsIn(out, c) == SelectSeq(out, LAMBDA e : e.by = c /\ e.kind = "prompt")

ReadersOf(ls, c) == {ls[i].id : i \in {j \in 1..Len(ls) : ls[j].cb.call = c}}

\* C5: once a get call has handed a stream error to its callback, no step
\* writes a further prompt for it, starts a further read for it or stores a
\* further result in its record.
C5_AbortOnError ==
  [][\A b \in 1..Len(batches) :
       (/\ batches[b].k = "user"
        /\ calls[batches[b].call].n >= 1 /\ calls[batches[b].call].a1 = "error")
       => /\ PromptsIn(output', batches[b].call) = PromptsIn(output, batches[b].call)
          /\ ReadersOf(dataL', batches[b].call) \subseteq ReadersOf(dataL, batches[b].call)
          /\ batches'[b].result = batches[b].result]_vars

\* C6: at most one reader's data listener is attached to the input stream
C6_SingleReader == Len(dataL) <= 1

\* C7: once started, the input stream is flowing exactly when a reader's
\* data listener is attached, and no chunk was emitted to no listener.
C7_PauseResumeFraming ==
  started => ((flowing <=> dataL # <<>>) /\ lost = 0)

\* the property has a defined value on the target, as a key or as a dotted path
Defined(tree, name) == <<name>> \in DOMAIN tree \/ split(name) \in DOMAIN tree

\* C8: addProperties writes no prompt for a property that has a defined
\* value on the target, dotted paths included; when every listed property is
\* defined no read is started and the target is handed back unchanged.
C8_DefinedNeverPrompted ==
  \A c \in Calls :
    calls[c].op = "addProperties" =>
      LET props == calls[c].msg
          obj   == calls[c].target
      IN  /\ \A i \in 1..Len(props) :
               Defined(obj, props[i]) =>
                 \A n \in 1..Len(PromptsIn(output, c)) :
                   PromptsIn(output, c)[n].text # promptMsg(normalize(St, Bare(props[i])))
          /\ (\A i \in 1..Len(props) : Defined(obj, props[i])) =>
               /\ ReadersOf(dataL, c) = {}
               /\ calls[c].n = 1 /\ calls[c].obj = obj

\* C9: when the callback of addProperties fires with the target, every path
\* that held a value before the call holds the same value.
C9_NeverOverwrites ==
  \A c \in Calls :
    (/\ calls[c].op = "addProperties" /\ calls[c].n >= 1
     /\ calls[c].a1 \in {"null", "object"})
    => \A q \in DOMAIN calls[c].target :
         q \in DOMAIN calls[c].obj /\ calls[c].obj[q] = calls[c].target[q]

\* the entries of the transcript written on behalf of the call c
Shown(c) == SelectSeq(output, LAMBDA e : e.by = c)

\* C11: all that a hidden read ever writes is a newline on stdout, at most
\* one; a hidden read that was called back with a line wrote that newline
\* before the callback ran, and a newline was written only for a read that
\* was called back with a line or was interrupted.
C11_HiddenNeverEchoes ==
  \A c \in Calls :
    calls[c].op = "readLineHidden"
    => /\ \A i \in 1..Len(Shown(c)) :
            Shown(c)[i] = Written("stdout", "newline", <<LF>>, c)
       /\ Len(Shown(c)) <= 1
       /\ Resolved(c)
            => /\ Len(Shown(c)) = 1
               /\ calls[c].seen >= 1
               /\ output[calls[c].seen] = Written("stdout", "newline", <<LF>>, c)
       /\ Len(Shown(c)) = 1 => (Resolved(c) \/ proc = "exit1")

\* a hidden read took typed text in and was then ended by a terminator
C11_Witness ==
  \E c \in Calls :
    /\ calls[c].op = "readLineHidden" /\ Resolved(c) /\ calls[c].line = <<"b">>
    /\ Shown(c) = <<Written("stdout", "newline", <<LF>>, c)>>

\* the step delivers the interrupt signal to a started session
SignalStep ==
  /\ started /\ proc = "running" /\ proc' # "running"
  /\ input' = input /\ errors' = errors

\* the step delivers the interrupt character or NUL, as a chunk of its own,
\* while a hidden read listens
InterruptKeyStep ==
  /\ proc = "running" /\ flowing
  /\ \E i \in 1..Len(dataL) : dataL[i].kind = "hidden"
  /\ \E c \in {<<ETX>>, <<NUL>>} : input' = Append(input, c)

Merged ==
  {b \in 1..Len(batches) :
     LET c == batches[b].call
     IN  calls[c].op = "addProperties" /\ calls[c].n >= 1 /\ calls[c].a1 = "null"}

\* the value answered for the i-th result of batch b is readable at the
\* full path of its key in the object the callback received
ReadableAt(b, i) ==
  LET r   == batches[b].result[i]
      obj == calls[batches[b].call].obj
  IN  split(r.name) \in DOMAIN obj /\ obj[split(r.name)] = StringV(r.line)

\* C13 as stated: after addProperties has called back, every answered value
\* is readable at its full path in the target, whatever the list of names.
C13_ReadableAtFullPath ==
  \A b \in Merged : \A i \in 1..Len(batches[b].result) : ReadableAt(b, i)

\* one path is a proper prefix of the other
Conflict(p, q) == p # q /\ (IsPrefix(p, q) \/ IsPrefix(q, p))

\* no other answered key conflicts with the i-th key of batch b, and no
\* key on its way holds a non-empty string on the target
Mergeable(b, i) ==
  LET p      == split(batches[b].result[i].name)
      target == calls[batches[b].call].target
  IN  /\ \A j \in 1..Len(batches[b].result) :
           ~Conflict(p, split(batches[b].result[j].name))
      /\ \A n \in 1..(Len(p) - 1) :
           LET q == SubSeq(p, 1, n)
           IN  q \in DOMAIN target => (target[q].t = "object" \/ Falsy(target, q))

\* C13 amended: every answered value whose key conflicts with no other
\* answered key, and whose path runs through no non-empty string of the
\* target, is readable at the full path of its (lower-cased) key afterwards.
C13_ReadableWithoutConflict ==
  \A b \in Merged :
    \A i \in 1..Len(batches[b].result) : Mergeable(b, i) => ReadableAt(b, i)

\* target {} and property "d.h" answered "a" gave {d: {h: "a"}}
C13_Witness ==
  \E b \in Merged :
    LET c == batches[b].call
    IN  /\ calls[c].target = NoTree /\ calls[c].msg = <<dhName>>
        /\ batches[b].result = <<[name |-> dhName, line |-> <<"a">>]>>
        /\ calls[c].obj = [q \in {<<>>, <<dName>>, <<dName, hName>>} |->
                             IF q = <<dName, hName>> THEN StringV(<<"a">>) ELSE ObjectV]

\* C14: in every state a call of start returns the session handle, and a
\* call made when the session is started leaves every variable as it was
\* (the streams, the started flag, the number of interrupt handlers).
C14_StartIdempotentChainable ==
  /\ startReturn(St) = "beseech"
  /\ started => start(St) = St

\* C15: the callback of a readLine, readLineHidden or getInput call has been
\* invoked at most once, whatever the stream did after it was invoked.
C15_CallbackAtMostOnce ==
  \A c \in Calls :
    calls[c].op \in {"readLine", "readLineHidden", "getInput"} => calls[c].n <= 1

\* C16: a step in which the callback of a readLineHidden call is invoked
\* leaves the terminal in cooked mode, the listeners of that read detached
\* and the input stream paused.
C16_CookedWhenCalledBack ==
  [][\A c \in Calls :
       (calls[c].op = "readLineHidden" /\ calls'[c].n > calls[c].n)
       => /\ ~rawMode'
          /\ ReadersOf(dataL', c) = {} /\ ReadersOf(errorL', c) = {}
          /\ ~flowing']_vars

\* the characters of a sequence of chunks, one after the other
RECURSIVE Flat(_)
Flat(chunks) == IF chunks = <<>> THEN <<>> ELSE Head(chunks) \o Flat(Tail(chunks))

Terminators == {LF, CR, EOT}

HasTerminator(text) == \E n \in 1..Len(text) : text[n] \in Terminators

\* the characters that come before the first terminator
BeforeTerminator(text) ==
  LET n == CHOOSE m \in 1..Len(text) :
             text[m] \in Terminators /\ \A k \in 1..(m - 1) : text[k] \notin Terminators
  IN  SubSeq(text, 1, n - 1)

\* C17: a hidden read that is alone on an error-free stream is completed as
\* soon as the characters delivered to it hold a terminator, however they
\* were grouped into chunks, and it resolves with the trimmed text that
\* came before the first terminator.
C17_ChunkingIrrelevant ==
  (/\ Len(calls) = 1 /\ calls[1].op = "readLineHidden"
   /\ errors = 0 /\ lost = 0 /\ proc = "running")
  => /\ HasTerminator(Flat(input)) => Resolved(1)
     /\ Resolved(1) => calls[1].line = trim(BeforeTerminator(Flat(input)))

\* the field's default is substituted for an empty line and fails the validator
DefaultInvalid(prop) ==
  prop.validator # "none" /\ prop.default # <<>> /\ ~Valid(prop.validator, prop.default)

\* the empty lines submitted so far, as the field's reader counts them: a
\* lone carriage return ends a hidden line and is no line to a cooked read
EmptyLines(prop) ==
  Cardinality({i \in 1..Len(input) : prop.hidden \/ input[i] = <<LF>>})

\* C18: the value a getInput call resolved with passes the field's
\* validator; a field whose default fails the validator never resolves
\* while only empty lines are submitted, and when the call is alone on an
\* error-free stream each of those lines was rejected.
C18_ValidatedAfterDefault ==
  \A c \in Calls :
    (calls[c].op = "getInput" /\ calls[c].prop.validator # "none") =>
      LET prop == calls[c].prop
      IN  /\ Resolved(c) => Valid(prop.validator, calls[c].line)
          /\ (DefaultInvalid(prop) /\ OnlyEmptyLines) =>
               /\ ~Resolved(c)
               /\ (Len(calls) = 1 /\ errors = 0 /\ lost = 0) =>
                    Len(Rejections(c)) = EmptyLines(prop)

\* a default was substituted for the one empty line submitted, passed the
\* validator and was accepted without a rejection
C18_Witness ==
  \E c \in Calls :
    /\ calls[c].op = "getInput" /\ calls[c].prop.validator # "none"
    /\ input = <<<<LF>>>> /\ lost = 0
    /\ Resolved(c) /\ calls[c].line = calls[c].prop.default
    /\ Rejections(c) = <<>>

\* C19: whenever the callback of addProperties has been invoked, its first
\* argument is an error and the stream has failed, or its first argument
\* is null and its second argument is the target.
C19_OneCallbackConvention ==
  \A c \in Calls :
    (calls[c].op = "addProperties" /\ calls[c].n >= 1)
    => \/ calls[c].a1 = "error" /\ errors >= 1
       \/ calls[c].a1 = "null" /\ calls[c].a2 = "object"

\* a chunk that is one terminated line: text without control characters,
\* then a newline
TerminatedLine(chunk) ==
  /\ chunk # <<>> /\ chunk[Len(chunk)] = LF
  /\ \A k \in 1..(Len(chunk) - 1) : chunk[k] \notin {LF, CR, EOT, ETX, NUL}

\* the i-th chunk is a terminated line whose text the field accepts
Accepts(field, chunk) ==
  /\ TerminatedLine(chunk)
  /\ Valid(field.validator,
           withDefault(field, trim(SubSeq(chunk, 1, Len(chunk) - 1))))

\* C20: when a get call is alone on an error-free stream that has delivered
\* one terminated line per field, each passing its field's validator, get
\* has invoked its callback exactly once, with a record of every field.
C20_BatchCompletes ==
  \A b \in 1..Len(batches) :
    LET B == batches[b]
        c == B.call
    IN  (/\ calls[c].op = "get" /\ Len(calls) = 1
         /\ errors = 0 /\ lost = 0 /\ proc = "running"
         /\ Len(input) = Len(B.vars)
         /\ \A i \in 1..Len(input) : Accepts(B.vars[i], input[i]))
        => /\ Resolved(c) /\ calls[c].n = 1
           /\ Len(calls[c].rec) = Len(B.vars)

====
